---- MODULE Spec2Model ----
(***************************************************************************)
(* Agente de Analise de Notas Fiscais (src/Agente_streamlit.py).           *)
(*                                                                         *)
(* The model covers the consolidation step                                 *)
(* (AgenteNotasFiscais.__init__ / _load_and_preprocess_data), the shared   *)
(* table data_repo.df, the five aggregation tools and consultar_ia.        *)
(*                                                                         *)
(* Data representation                                                     *)
(*   text        a sequence of one-character strings, <<"A","b">>          *)
(*   cell        [t, s, n]: t = "str" (text s), "int" (integer n),         *)
(*               "num" (float, n counted in tenths: 25 is 2.5),            *)
(*               "nan" (missing value / None)                              *)
(*   DataFrame   [cols |-> sequence of column names,                       *)
(*                rows |-> sequence of rows, a row being a sequence of     *)
(*                         cells aligned with cols]                        *)
(*   tool result [kind |-> "ok", ...]    a JSON result                     *)
(*               [kind |-> "erro", ...]  a JSON {"erro": ...} object       *)
(*               [kind |-> "raise", ...] an exception leaving the tool     *)
(*                                                                         *)
(* The tools are modelled as the functions the module exports: they may    *)
(* be called in every state, with any arguments.  The module body is       *)
(* taken to run once; Streamlit's re-execution of the script and the       *)
(* reading of the CSV files (load_dataframe) are outside the model.        *)
(***************************************************************************)
EXTENDS Integers, Sequences, FiniteSets, TLC

VARIABLES
    data_repo_df,   \* data_repo.df, the table the tools read
    agente,         \* st.session_state.agente: None or the agent's df_consolidado
    last,           \* the call in progress and its return value, or Idle
    publicado,      \* history: the table the last consolidation published
    ult_cabecalho,  \* history: header file of the last upload
    ult_itens       \* history: item file of the last upload

vars == <<data_repo_df, agente, last, publicado, ult_cabecalho, ult_itens>>

(***************************************************************************)
(* Cells and text                                                          *)
(***************************************************************************)
StrCell(s) == [t |-> "str", s |-> s, n |-> 0]
IntCell(n) == [t |-> "int", s |-> <<>>, n |-> n]
NumCell(n) == [t |-> "num", s |-> <<>>, n |-> n]
NaN == [t |-> "nan", s |-> <<>>, n |-> 0]

Digits == <<"0", "1", "2", "3", "4", "5", "6", "7", "8", "9">>
IsDigit(c) == \E i \in 1..Len(Digits) : Digits[i] = c
DigitVal(c) == (CHOOSE i \in 1..Len(Digits) : Digits[i] = c) - 1
AllDigits(s) == \A i \in 1..Len(s) : IsDigit(s[i])

RECURSIVE NatOf(_)
NatOf(s) == IF s = <<>> THEN 0
            ELSE 10 * NatOf(SubSeq(s, 1, Len(s) - 1)) + DigitVal(s[Len(s)])

RECURSIVE NatToTxt(_)
NatToTxt(n) == IF n < 10 THEN <<Digits[n + 1]>>
               ELSE NatToTxt(n \div 10) \o <<Digits[(n % 10) + 1]>>

IntToTxt(n) == IF n < 0 THEN <<"-">> \o NatToTxt(-n) ELSE NatToTxt(n)

\* the characters of the model in code point order
CharOrder == <<" ", "(", ",", "-", ".",
               "0", "1", "2", "3", "4", "5", "6", "7", "8", "9",
               "A", "B", "C", "D", "N", "X", "Y",
               "a", "b", "c", "d", "e", "f", "i", "n", "o", "p", "s", "x", "y", "z",
               "ã">>
Ord(c) == CHOOSE i \in 1..Len(CharOrder) : CharOrder[i] = c

RECURSIVE TxtLess(_, _)
TxtLess(a, b) ==
    IF b = <<>> THEN FALSE
    ELSE IF a = <<>> THEN TRUE
    ELSE IF a[1] = b[1] THEN TxtLess(Tail(a), Tail(b))
    ELSE Ord(a[1]) < Ord(b[1])

Lower(c) ==
    CASE c = "A" -> "a" [] c = "B" -> "b" [] c = "C" -> "c" [] c = "D" -> "d"
      [] c = "N" -> "n" [] c = "X" -> "x" [] c = "Y" -> "y"
      [] OTHER -> c

(***************************************************************************)
(* DataFrame                                                               *)
(***************************************************************************)
DataFrame == [cols |-> <<>>, rows |-> <<>>]

\* DataFrame.empty: any axis of length 0
empty(df) == Len(df.cols) = 0 \/ Len(df.rows) = 0

HasCol(df, c) == \E i \in 1..Len(df.cols) : df.cols[i] = c
ColIdx(df, c) == CHOOSE i \in 1..Len(df.cols) : df.cols[i] = c
Cell(df, r, c) == df.rows[r][ColIdx(df, c)]

drop(df, S) ==
    LET k == SelectSeq([i \in 1..Len(df.cols) |-> i], LAMBDA i : df.cols[i] \notin S)
    IN [cols |-> [j \in 1..Len(k) |-> df.cols[k[j]]],
        rows |-> [r \in 1..Len(df.rows) |-> [j \in 1..Len(k) |-> df.rows[r][k[j]]]]]

rename(df, de, para) ==
    [df EXCEPT !.cols = [i \in 1..Len(df.cols) |->
                            IF df.cols[i] = de THEN para ELSE df.cols[i]]]

ColSet(df) == {df.cols[i] : i \in 1..Len(df.cols)}

(***************************************************************************)
(* Schema normalisation and numeric coercion                               *)
(***************************************************************************)
\* str(col).strip().upper(), tabulated over the raw column names of the model
StripUpper(c) ==
    CASE c = " chave de acesso "      -> "CHAVE DE ACESSO"
      [] c = "Chave de Acesso"        -> "CHAVE DE ACESSO"
      [] c = "razão social emitente " -> "RAZÃO SOCIAL EMITENTE"
      [] c = "Valor Nota Fiscal"      -> "VALOR NOTA FISCAL"
      [] c = "descrição do produto/serviço" -> "DESCRIÇÃO DO PRODUTO/SERVIÇO"
      [] c = "Quantidade"             -> "QUANTIDADE"
      [] c = " valor unitário"        -> "VALOR UNITÁRIO"
      [] c = "Valor Total "           -> "VALOR TOTAL"
      [] OTHER -> c

NormalizarColunas(df) ==
    [df EXCEPT !.cols = [i \in 1..Len(df.cols) |-> StripUpper(df.cols[i])]]

\* Series.astype(str) of one cell
astype_str(c) ==
    CASE c.t = "str" -> c.s
      [] c.t = "int" -> IntToTxt(c.n)
      [] c.t = "num" -> (IF c.n < 0 THEN <<"-">> ELSE <<>>)
                        \o NatToTxt((IF c.n < 0 THEN -c.n ELSE c.n) \div 10)
                        \o <<".">>
                        \o NatToTxt((IF c.n < 0 THEN -c.n ELSE c.n) % 10)
      [] OTHER -> <<"n", "a", "n">>

\* str.replace(',', '.', regex=False)
str_replace_comma(s) == [i \in 1..Len(s) |-> IF s[i] = "," THEN "." ELSE s[i]]

\* pd.to_numeric(..., errors='coerce') of one text; the value is kept in tenths
to_numeric(s) ==
    LET neg  == Len(s) > 0 /\ s[1] = "-"
        body == IF neg THEN Tail(s) ELSE s
        dots == {i \in 1..Len(body) : body[i] = "."}
    IN IF Cardinality(dots) > 1 THEN NaN
       ELSE LET p  == IF dots = {} THEN Len(body) + 1 ELSE CHOOSE i \in dots : TRUE
                ip == SubSeq(body, 1, p - 1)
                fp == SubSeq(body, p + 1, Len(body))
            IN IF ~AllDigits(ip) \/ ~AllDigits(fp) \/ (ip = <<>> /\ fp = <<>>)
               THEN NaN
               ELSE LET v == 10 * NatOf(ip) + (IF fp = <<>> THEN 0 ELSE DigitVal(fp[1]))
                    IN NumCell(IF neg THEN -v ELSE v)

CoerceCell(c) == to_numeric(str_replace_comma(astype_str(c)))

\* df[col] = pd.to_numeric(df[col].astype(str).str.replace(',', '.'), errors='coerce')
CoerceCol(df, c) ==
    [df EXCEPT !.rows =
        [r \in 1..Len(df.rows) |->
            [i \in 1..Len(df.cols) |->
                IF df.cols[i] = c THEN CoerceCell(df.rows[r][i]) ELSE df.rows[r][i]]]]

RECURSIVE CoerceCols(_, _)
CoerceCols(df, cols) ==
    IF cols = <<>> THEN df
    ELSE CoerceCols(IF HasCol(df, Head(cols)) THEN CoerceCol(df, Head(cols))
                    ELSE df,
                    Tail(cols))

(***************************************************************************)
(* Join and null fill                                                      *)
(***************************************************************************)
\* the join with how='left': a header row without items is kept, its item
\* columns missing
merge_left(left, right, on) ==
    LET lk == ColIdx(left, on)
        rk == ColIdx(right, on)
        rclean == drop(right, {on})
        Matches(l) == SelectSeq([j \in 1..Len(right.rows) |-> j],
                                LAMBDA j : right.rows[j][rk] = l[lk])
        RowsFor(l) == IF Matches(l) = <<>>
                      THEN << l \o [i \in 1..Len(rclean.cols) |-> NaN] >>
                      ELSE [m \in 1..Len(Matches(l)) |-> l \o rclean.rows[Matches(l)[m]]]
        RECURSIVE Cat(_)
        Cat(i) == IF i > Len(left.rows) THEN <<>>
                  ELSE RowsFor(left.rows[i]) \o Cat(i + 1)
    IN [cols |-> left.cols \o rclean.cols, rows |-> Cat(1)]

\* pd.merge(left, right, on=on, how='inner'): left order, then right order
merge(left, right, on) ==
    LET lk == ColIdx(left, on)
        rk == ColIdx(right, on)
        rclean == drop(right, {on})
        Matches(l) == SelectSeq([j \in 1..Len(right.rows) |-> j],
                                LAMBDA j : right.rows[j][rk] = l[lk])
        RowsFor(l) == [m \in 1..Len(Matches(l)) |-> l \o rclean.rows[Matches(l)[m]]]
        RECURSIVE Cat(_)
        Cat(i) == IF i > Len(left.rows) THEN <<>>
                  ELSE RowsFor(left.rows[i]) \o Cat(i + 1)
    IN [cols |-> left.cols \o rclean.cols, rows |-> Cat(1)]

NaoEspecificado ==
    <<"N", "ã", "o", " ", "e", "s", "p", "e", "c", "i", "f", "i", "c", "a", "d", "o">>

FillCell(c, v) == IF c.t = "nan" THEN v ELSE c

\* fillna({'ITEM': ..., 'FORNECEDOR': ...}) then fillna(0)
fillna(df) ==
    [df EXCEPT !.rows =
        [r \in 1..Len(df.rows) |->
            [i \in 1..Len(df.cols) |->
                IF df.cols[i] \in {"ITEM", "FORNECEDOR"}
                THEN FillCell(df.rows[r][i], StrCell(NaoEspecificado))
                ELSE FillCell(df.rows[r][i], IntCell(0))]]]

KeyAsStr(c) == StrCell(astype_str(c))

\* df[chave_acesso] = df[chave_acesso].astype(str)
KeyColAsStr(df, c) ==
    [df EXCEPT !.rows =
        [r \in 1..Len(df.rows) |->
            [i \in 1..Len(df.cols) |->
                IF df.cols[i] = c THEN KeyAsStr(df.rows[r][i]) ELSE df.rows[r][i]]]]

\* AgenteNotasFiscais._load_and_preprocess_data: the value of self.df_consolidado
\* when it returns, self0 being its value on entry
load_and_preprocess_data(self0, df_cabecalho, df_itens) ==
    LET cab1 == rename(NormalizarColunas(df_cabecalho), "RAZÃO SOCIAL EMITENTE", "FORNECEDOR")
        it1  == rename(NormalizarColunas(df_itens), "DESCRIÇÃO DO PRODUTO/SERVIÇO", "ITEM")
        cab2 == CoerceCols(cab1, <<"VALOR NOTA FISCAL">>)
        it2  == CoerceCols(it1, <<"QUANTIDADE", "VALOR UNITÁRIO", "VALOR TOTAL">>)
    IN IF ~HasCol(cab2, "CHAVE DE ACESSO") \/ ~HasCol(it2, "CHAVE DE ACESSO")
       THEN self0
       ELSE LET cab3 == KeyColAsStr(cab2, "CHAVE DE ACESSO")
                it3  == KeyColAsStr(it2, "CHAVE DE ACESSO")
                cols_para_remover == (ColSet(it3) \cap ColSet(cab3)) \ {"CHAVE DE ACESSO"}
                df_itens_clean == drop(it3, cols_para_remover)
            IN fillna(merge(cab3, df_itens_clean, "CHAVE DE ACESSO"))

(***************************************************************************)
(* Aggregation tools                                                       *)
(***************************************************************************)
Erro(msg) == [kind |-> "erro", erro |-> msg]
Raise(exc) == [kind |-> "raise", exc |-> exc]

\* the value of a numeric cell, in tenths
Val(c) == IF c.t = "int" THEN 10 * c.n ELSE c.n

Column(df, c) == [r \in 1..Len(df.rows) |-> Cell(df, r, c)]
IsNumeric(col) == \A i \in 1..Len(col) : col[i].t \in {"int", "num"}

RECURSIVE SumVals(_)
SumVals(col) == IF col = <<>> THEN 0 ELSE Val(Head(col)) + SumVals(Tail(col))

\* int(n) guarded by except (ValueError, TypeError)
py_int(n) ==
    CASE n.t = "int" -> [ok |-> TRUE, v |-> n.n]
      [] n.t = "num" -> [ok |-> TRUE,
                         v |-> IF n.n < 0 THEN -((-n.n) \div 10) ELSE n.n \div 10]
      [] n.t = "str" ->
            LET neg  == Len(n.s) > 0 /\ n.s[1] = "-"
                body == IF neg THEN Tail(n.s) ELSE n.s
            IN IF body # <<>> /\ AllDigits(body)
               THEN [ok |-> TRUE, v |-> IF neg THEN -NatOf(body) ELSE NatOf(body)]
               ELSE [ok |-> FALSE, v |-> 0]
      [] OTHER -> [ok |-> FALSE, v |-> 0]

ErroN(n) ==
    [kind |-> "erro",
     erro |-> "O parâmetro 'n' para a contagem deve ser um número inteiro. Recebido: ",
     recebido |-> n]

calcular_valor_total_gasto(df) ==
    IF empty(df) THEN Erro("DataFrame vazio ou não carregado.")
    ELSE IF ~HasCol(df, "VALOR TOTAL") THEN Raise("KeyError")
    ELSE IF ~IsNumeric(Column(df, "VALOR TOTAL")) THEN Raise("TypeError")
    ELSE [kind |-> "ok", valor_total_gasto |-> SumVals(Column(df, "VALOR TOTAL"))]

\* Series.idxmax / idxmin: the first row holding the extreme value
idxmax(col) == CHOOSE i \in 1..Len(col) :
                  /\ \A j \in 1..Len(col) : Val(col[j]) <= Val(col[i])
                  /\ \A j \in 1..(i - 1) : Val(col[j]) < Val(col[i])
idxmin(col) == CHOOSE i \in 1..Len(col) :
                  /\ \A j \in 1..Len(col) : Val(col[j]) >= Val(col[i])
                  /\ \A j \in 1..(i - 1) : Val(col[j]) > Val(col[i])

encontrar_item_mais_caro_ou_barato(df, ordenacao) ==
    IF empty(df) THEN Erro("DataFrame vazio.")
    ELSE IF ~HasCol(df, "VALOR UNITÁRIO") THEN Raise("KeyError")
    ELSE IF ~IsNumeric(Column(df, "VALOR UNITÁRIO")) THEN Raise("TypeError")
    ELSE LET col  == Column(df, "VALOR UNITÁRIO")
             idx  == IF ordenacao = "caro" THEN idxmax(col) ELSE idxmin(col)
             desc == IF ordenacao = "caro" THEN "mais caro" ELSE "mais barato"
         IN IF ~HasCol(df, "ITEM") \/ ~HasCol(df, "FORNECEDOR") THEN Raise("KeyError")
            ELSE [kind |-> "ok",
                  item |-> Cell(df, idx, "ITEM"),
                  fornecedor |-> Cell(df, idx, "FORNECEDOR"),
                  valor_unitario |-> Val(col[idx]),
                  descricao |-> desc]

RECURSIVE SortTxt(_)
SortTxt(S) ==
    IF S = {} THEN <<>>
    ELSE LET m == CHOOSE x \in S : \A y \in S \ {x} : TxtLess(x, y)
         IN <<m>> \o SortTxt(S \ {m})

\* df.groupby(chave)[valor].sum(): one entry per key, keys in sorted order
groupby_sum(df, chave, valor) ==
    LET keys == SortTxt({Cell(df, r, chave).s : r \in 1..Len(df.rows)})
        idx(k) == SelectSeq([r \in 1..Len(df.rows) |-> r],
                            LAMBDA r : Cell(df, r, chave).s = k)
        sumOf(k) == SumVals([j \in 1..Len(idx(k)) |-> Cell(df, idx(k)[j], valor)])
    IN [g \in 1..Len(keys) |-> [chave |-> keys[g], soma |-> sumOf(keys[g])]]

RemoveAt(s, i) == SubSeq(s, 1, i - 1) \o SubSeq(s, i + 1, Len(s))

FirstMax(s) == CHOOSE i \in 1..Len(s) :
                  /\ \A j \in 1..Len(s) : s[j].soma <= s[i].soma
                  /\ \A j \in 1..(i - 1) : s[j].soma < s[i].soma
FirstMin(s) == CHOOSE i \in 1..Len(s) :
                  /\ \A j \in 1..Len(s) : s[j].soma >= s[i].soma
                  /\ \A j \in 1..(i - 1) : s[j].soma > s[i].soma

\* Series.nlargest(n) / nsmallest(n), keep='first'; empty for n <= 0
RECURSIVE nlargest(_, _)
nlargest(s, n) ==
    IF n <= 0 \/ s = <<>> THEN <<>>
    ELSE <<s[FirstMax(s)]>> \o nlargest(RemoveAt(s, FirstMax(s)), n - 1)

RECURSIVE nsmallest(_, _)
nsmallest(s, n) ==
    IF n <= 0 \/ s = <<>> THEN <<>>
    ELSE <<s[FirstMin(s)]>> \o nsmallest(RemoveAt(s, FirstMin(s)), n - 1)

TopN(df, chave, valor, n, ordem) ==
    IF ~HasCol(df, chave) \/ ~HasCol(df, valor) THEN Raise("KeyError")
    ELSE IF ~IsNumeric(Column(df, valor)) THEN Raise("TypeError")
    ELSE LET agrupado == groupby_sum(df, chave, valor)
         IN [kind |-> "ok",
             serie |-> IF ordem = "maior" THEN nlargest(agrupado, n)
                       ELSE nsmallest(agrupado, n)]

obter_top_n_itens_por(df, metrica, n, ordem) ==
    IF ~py_int(n).ok THEN ErroN(n)
    ELSE IF empty(df) THEN Erro("DataFrame vazio.")
    ELSE IF metrica = "quantidade" THEN TopN(df, "ITEM", "QUANTIDADE", py_int(n).v, ordem)
    ELSE IF metrica = "valor" THEN TopN(df, "ITEM", "VALOR TOTAL", py_int(n).v, ordem)
    ELSE Erro("Métrica inválida. Use 'quantidade' ou 'valor'.")

\* the tool summing each invoice once: rows repeating an earlier key are dropped
obter_top_n_fornecedores_por_valor_dedup(df, n, ordem) ==
    IF ~py_int(n).ok THEN ErroN(n)
    ELSE IF empty(df) THEN Erro("DataFrame vazio.")
    ELSE LET k == ColIdx(df, "CHAVE DE ACESSO")
             first == SelectSeq([r \in 1..Len(df.rows) |-> r],
                                LAMBDA r : \A q \in 1..(r - 1) : df.rows[q][k] # df.rows[r][k])
         IN TopN([df EXCEPT !.rows = [j \in 1..Len(first) |-> df.rows[first[j]]]],
                 "FORNECEDOR", "VALOR NOTA FISCAL", py_int(n).v, ordem)

obter_top_n_fornecedores_por_valor(df, n, ordem) ==
    IF ~py_int(n).ok THEN ErroN(n)
    ELSE IF empty(df) THEN Erro("DataFrame vazio.")
    ELSE TopN(df, "FORNECEDOR", "VALOR NOTA FISCAL", py_int(n).v, ordem)

\* re.compile fails on an unbalanced parenthesis
RegexInvalid(pat) == \E i \in 1..Len(pat) : pat[i] = "("

\* re.search(pat, s, re.IGNORECASE), for patterns of literals and the wildcard "."
RegexSearch(pat, s) ==
    \E p \in 0..(Len(s) - Len(pat)) :
        \A i \in 1..Len(pat) : pat[i] = "." \/ Lower(pat[i]) = Lower(s[p + i])

\* Series.str.contains(pat, case=False, na=False), regex=True by default
str_contains(c, pat) == c.t = "str" /\ RegexSearch(pat, c.s)

contar_notas_ou_itens(df, contar_o_que, fornecedor) ==
    IF empty(df) THEN Erro("DataFrame vazio.")
    ELSE LET filtra == fornecedor.t = "str" /\ fornecedor.s # <<>>
         IN IF filtra /\ ~HasCol(df, "FORNECEDOR") THEN Raise("KeyError")
            ELSE IF filtra /\ RegexInvalid(fornecedor.s) THEN Raise("re.error")
            ELSE LET df_filtrado ==
                        IF filtra
                        THEN [df EXCEPT !.rows =
                                SelectSeq(df.rows,
                                          LAMBDA row : str_contains(row[ColIdx(df, "FORNECEDOR")],
                                                                    fornecedor.s))]
                        ELSE df
                 IN IF filtra /\ empty(df_filtrado)
                    THEN [kind |-> "erro",
                          erro |-> "Nenhum fornecedor encontrado com o nome ",
                          fornecedor |-> fornecedor.s]
                    ELSE IF contar_o_que = "notas"
                    THEN IF ~HasCol(df_filtrado, "CHAVE DE ACESSO") THEN Raise("KeyError")
                         ELSE [kind |-> "ok",
                               contagem |-> Cardinality(
                                   {Cell(df_filtrado, r, "CHAVE DE ACESSO") :
                                        r \in 1..Len(df_filtrado.rows)})]
                    ELSE IF contar_o_que = "itens"
                    THEN [kind |-> "ok", contagem |-> Len(df_filtrado.rows)]
                    ELSE Erro("Parâmetro 'contar_o_que' inválido. Use 'notas' ou 'itens'.")

\* AgenteNotasFiscais.consultar_ia: the model is called only on a non-empty table
consultar_ia(df_consolidado, resposta) ==
    IF empty(df_consolidado)
    THEN [kind |-> "texto", texto |-> "Os dados ainda não foram carregados ou processados.",
          chamou_modelo |-> FALSE]
    ELSE [kind |-> "texto", texto |-> resposta, chamou_modelo |-> TRUE]

\* the tool named tool applied to df, as the dispatcher of the language model calls it
ToolResult(df, tool, args) ==
    CASE tool = "calcular_valor_total_gasto" -> calcular_valor_total_gasto(df)
      [] tool = "encontrar_item_mais_caro_ou_barato" ->
            encontrar_item_mais_caro_ou_barato(df, args.ordenacao)
      [] tool = "obter_top_n_itens_por" ->
            obter_top_n_itens_por(df, args.metrica, args.n, args.ordem)
      [] tool = "obter_top_n_fornecedores_por_valor" ->
            obter_top_n_fornecedores_por_valor(df, args.n, args.ordem)
      [] tool = "contar_notas_ou_itens" ->
            contar_notas_ou_itens(df, args.contar_o_que, args.fornecedor)

(***************************************************************************)
(* Bounds and inputs                                                       *)
(***************************************************************************)
MaxCabecalho == 2   \* rows of an uploaded header file
MaxItens == 2       \* rows of an uploaded item file
MaxN == 3           \* largest integer n a caller passes

ABC == <<"A", "B", "C">>
Ab == <<"A", "b">>
XY == <<"X", "Y">>

\* header records: key, supplier, invoice value
CabSeeds ==
    { [chave |-> IntCell(1), fornecedor |-> StrCell(ABC), vnf |-> StrCell(<<"1", "0", ",", "5">>)],
      [chave |-> IntCell(2), fornecedor |-> StrCell(Ab),  vnf |-> IntCell(20)],
      [chave |-> IntCell(1), fornecedor |-> StrCell(Ab),  vnf |-> NumCell(25)] }

\* item records: key, item, quantity, unit value, total value
ItemSeeds ==
    { [chave |-> StrCell(<<"1">>), item |-> StrCell(<<"A">>), quantidade |-> IntCell(2),
       unitario |-> StrCell(<<"1", ",", "5">>), total |-> NumCell(30)],
      [chave |-> StrCell(<<"1">>), item |-> StrCell(<<"B">>), quantidade |-> StrCell(<<"2">>),
       unitario |-> StrCell(<<"1", ".", "5">>), total |-> StrCell(<<"3">>)],
      [chave |-> StrCell(<<"2">>), item |-> NaN, quantidade |-> NaN,
       unitario |-> StrCell(<<"x">>), total |-> StrCell(<<"1", ".", "2", "3", "4", ",", "5">>)] }

SeqsUpTo(S, n) == UNION {[1..k -> S] : k \in 0..n}

Field(seed, col) ==
    CASE StripUpper(col) = "CHAVE DE ACESSO" -> seed.chave
      [] StripUpper(col) \in {"RAZÃO SOCIAL EMITENTE", "FORNECEDOR"} -> seed.fornecedor
      [] StripUpper(col) = "VALOR NOTA FISCAL" -> seed.vnf
      [] StripUpper(col) \in {"DESCRIÇÃO DO PRODUTO/SERVIÇO", "ITEM"} -> seed.item
      [] StripUpper(col) = "QUANTIDADE" -> seed.quantidade
      [] StripUpper(col) = "VALOR UNITÁRIO" -> seed.unitario
      [] StripUpper(col) = "VALOR TOTAL" -> seed.total

\* the file with columns cols holding the records seeds
Arquivo(cols, seeds) ==
    [cols |-> cols,
     rows |-> [r \in 1..Len(seeds) |-> [i \in 1..Len(cols) |-> Field(seeds[r], cols[i])]]]

CabCols == <<" chave de acesso ", "razão social emitente ", "Valor Nota Fiscal">>
ItemCols == <<"Chave de Acesso", "descrição do produto/serviço", "Quantidade",
              " valor unitário", "Valor Total ">>

\* complete files: every column present, under raw names
DataUploads ==
    { [cab |-> Arquivo(CabCols, c), itens |-> Arquivo(ItemCols, i)] :
        c \in SeqsUpTo(CabSeeds, MaxCabecalho), i \in SeqsUpTo(ItemSeeds, MaxItens) }

Cab2 == CHOOSE c \in [1..2 -> CabSeeds] :
            c[1].chave = IntCell(1) /\ c[1].fornecedor = StrCell(ABC)
            /\ c[2].chave = IntCell(2) /\ c[2].fornecedor = StrCell(Ab)
Itens2 == CHOOSE i \in [1..2 -> ItemSeeds] :
            i[1].chave = StrCell(<<"1">>) /\ i[1].item = StrCell(<<"A">>)
            /\ i[2].chave = StrCell(<<"2">>)

\* files lacking columns, or sharing a column
LayoutUploads ==
    { [cab |-> Arquivo(<<"FORNECEDOR", "VALOR NOTA FISCAL">>, Cab2),
       itens |-> Arquivo(ItemCols, Itens2)],
      [cab |-> Arquivo(CabCols, Cab2),
       itens |-> Arquivo(<<"ITEM", "QUANTIDADE", "VALOR UNITÁRIO", "VALOR TOTAL">>, Itens2)],
      [cab |-> Arquivo(<<"FORNECEDOR">>, Cab2), itens |-> Arquivo(<<"ITEM">>, Itens2)],
      [cab |-> Arquivo(<<"CHAVE DE ACESSO">>, Cab2), itens |-> Arquivo(ItemCols, Itens2)],
      [cab |-> Arquivo(CabCols, Cab2),
       itens |-> Arquivo(<<"CHAVE DE ACESSO", "ITEM">>, Itens2)],
      [cab |-> Arquivo(CabCols, Cab2),
       itens |-> Arquivo(<<"CHAVE DE ACESSO", "QUANTIDADE", "VALOR UNITÁRIO", "VALOR TOTAL">>,
                         Itens2)],
      [cab |-> Arquivo(CabCols,
                       [r \in 1..2 |-> [Cab2[r] EXCEPT !.fornecedor = NaN,
                                                       !.vnf = StrCell(<<"a", "b", "c">>)]]),
       itens |-> Arquivo(ItemCols, Itens2)],
      [cab |-> Arquivo(CabCols, Cab2),
       itens |-> Arquivo(ItemCols,
                         <<[Itens2[1] EXCEPT !.chave = StrCell(<<"0", "1">>)], Itens2[2]>>)],
      [cab |-> Arquivo(<<"CHAVE DE ACESSO", "FORNECEDOR", "VALOR TOTAL">>,
                       [r \in 1..2 |-> [Cab2[r] EXCEPT !.vnf = StrCell(<<"9", ",", "5">>)]
                                         @@ [total |-> StrCell(<<"9", ",", "5">>)]]),
       itens |-> Arquivo(<<"CHAVE DE ACESSO", "ITEM", "FORNECEDOR", "VALOR TOTAL">>,
                         [r \in 1..2 |-> Itens2[r] @@ [fornecedor |-> StrCell(XY)]])] }

\* four items valued A:100, B:50, C:200, D:75 on one invoice
ExemploItens ==
    << [chave |-> StrCell(<<"1">>), item |-> StrCell(<<"A">>), quantidade |-> IntCell(1),
        unitario |-> IntCell(100), total |-> IntCell(100)],
       [chave |-> StrCell(<<"1">>), item |-> StrCell(<<"B">>), quantidade |-> IntCell(1),
        unitario |-> IntCell(50), total |-> IntCell(50)],
       [chave |-> StrCell(<<"1">>), item |-> StrCell(<<"C">>), quantidade |-> IntCell(1),
        unitario |-> IntCell(200), total |-> IntCell(200)],
       [chave |-> StrCell(<<"1">>), item |-> StrCell(<<"D">>), quantidade |-> IntCell(1),
        unitario |-> IntCell(75), total |-> IntCell(75)] >>
Exemplo == [cab |-> Arquivo(CabCols, <<Cab2[1]>>), itens |-> Arquivo(ItemCols, ExemploItens)]

Uploads == DataUploads \cup LayoutUploads \cup {Exemplo}

\* what a second and later upload is drawn from: files of every layout and of
\* every outcome of consolidation (abort, zero rows, rows)
Reuploads ==
    LayoutUploads \cup {Exemplo}
    \cup { u \in DataUploads : Len(u.cab.rows) <= 1 /\ Len(u.itens.rows) <= 1 }

Ordenacoes == {"caro", "barato", "medio"}
Metricas == {"quantidade", "valor", "preco"}
Ordens == {"maior", "menor", "crescente"}
Ns == {IntCell(k) : k \in (-1)..MaxN}
      \cup {StrCell(<<"2">>), StrCell(<<"a", "b", "c">>), NumCell(15)}
Contagens == {"notas", "itens", "fornecedores"}
Fornecedores == {NaN, StrCell(<<"a", "b">>), StrCell(<<"b", "c">>), StrCell(<<"a", ".", "c">>),
                 StrCell(<<"z">>), StrCell(<<"(">>)}
Respostas == {"resposta do modelo", "Desculpe, não consegui processar sua pergunta."}

(***************************************************************************)
(* State machine                                                           *)
(***************************************************************************)
Idle == [tool |-> "idle"]

Init == /\ data_repo_df = DataFrame
        /\ agente = [set |-> FALSE, df_consolidado |-> DataFrame]
        /\ last = Idle
        /\ publicado = DataFrame
        /\ ult_cabecalho = DataFrame
        /\ ult_itens = DataFrame

\* "Analisar Arquivos e Iniciar Agente" with both files read:
\* AgenteNotasFiscais(df_cabecalho, df_itens)
Upload(df_cabecalho, df_itens) ==
    /\ last = Idle
    /\ LET df_consolidado == load_and_preprocess_data(DataFrame, df_cabecalho, df_itens)
       IN /\ data_repo_df' = df_consolidado
          /\ agente' = [set |-> TRUE, df_consolidado |-> df_consolidado]
          /\ publicado' = df_consolidado
    /\ ult_cabecalho' = df_cabecalho
    /\ ult_itens' = df_itens
    /\ UNCHANGED last

Result(tool, args) ==
    [tool |-> tool, args |-> args, ret |-> ToolResult(data_repo_df, tool, args)]

Call_calcular_valor_total_gasto ==
    /\ last = Idle
    /\ last' = Result("calcular_valor_total_gasto", [nenhum |-> TRUE])
    /\ UNCHANGED <<data_repo_df, agente, publicado, ult_cabecalho, ult_itens>>

Call_encontrar_item_mais_caro_ou_barato ==
    /\ last = Idle
    /\ \E ordenacao \in Ordenacoes :
        last' = Result("encontrar_item_mais_caro_ou_barato", [ordenacao |-> ordenacao])
    /\ UNCHANGED <<data_repo_df, agente, publicado, ult_cabecalho, ult_itens>>

Call_obter_top_n_itens_por ==
    /\ last = Idle
    /\ \E metrica \in Metricas, n \in Ns, ordem \in Ordens :
        last' = Result("obter_top_n_itens_por",
                       [metrica |-> metrica, n |-> n, ordem |-> ordem])
    /\ UNCHANGED <<data_repo_df, agente, publicado, ult_cabecalho, ult_itens>>

Call_obter_top_n_fornecedores_por_valor ==
    /\ last = Idle
    /\ \E n \in Ns, ordem \in Ordens :
        last' = Result("obter_top_n_fornecedores_por_valor", [n |-> n, ordem |-> ordem])
    /\ UNCHANGED <<data_repo_df, agente, publicado, ult_cabecalho, ult_itens>>

\* the tool keeping its filtered frame in data_repo.df
Call_contar_notas_ou_itens_inplace ==
    /\ last = Idle
    /\ \E contar_o_que \in Contagens, fornecedor \in Fornecedores :
        /\ last' = Result("contar_notas_ou_itens",
                          [contar_o_que |-> contar_o_que, fornecedor |-> fornecedor])
        /\ data_repo_df' =
             IF /\ fornecedor.t = "str" /\ fornecedor.s # <<>>
                /\ HasCol(data_repo_df, "FORNECEDOR")
                /\ ~RegexInvalid(fornecedor.s)
             THEN [data_repo_df EXCEPT !.rows =
                     SelectSeq(data_repo_df.rows,
                               LAMBDA row : str_contains(row[ColIdx(data_repo_df, "FORNECEDOR")],
                                                         fornecedor.s))]
             ELSE data_repo_df
    /\ UNCHANGED <<agente, publicado, ult_cabecalho, ult_itens>>

Call_contar_notas_ou_itens ==
    /\ last = Idle
    /\ \E contar_o_que \in Contagens, fornecedor \in Fornecedores :
        last' = Result("contar_notas_ou_itens",
                       [contar_o_que |-> contar_o_que, fornecedor |-> fornecedor])
    /\ UNCHANGED <<data_repo_df, agente, publicado, ult_cabecalho, ult_itens>>

\* the question box, shown only once an agent exists
Call_consultar_ia ==
    /\ last = Idle
    /\ agente.set
    /\ \E resposta \in Respostas :
        last' = [tool |-> "consultar_ia", args |-> [nenhum |-> TRUE],
                 ret |-> consultar_ia(agente.df_consolidado, resposta)]
    /\ UNCHANGED <<data_repo_df, agente, publicado, ult_cabecalho, ult_itens>>

\* the caller takes the return value
Return ==
    /\ last # Idle
    /\ last' = Idle
    /\ UNCHANGED <<data_repo_df, agente, publicado, ult_cabecalho, ult_itens>>

Next ==
    \/ \E u \in (IF agente.set THEN Reuploads ELSE Uploads) : Upload(u.cab, u.itens)
    \/ Call_calcular_valor_total_gasto
    \/ Call_encontrar_item_mais_caro_ou_barato
    \/ Call_obter_top_n_itens_por
    \/ Call_obter_top_n_fornecedores_por_valor
    \/ Call_contar_notas_ou_itens
    \/ Call_consultar_ia
    \/ Return

Spec == Init /\ [][Next]_vars

(***************************************************************************)
(* Vocabulary of the properties                                            *)
(***************************************************************************)
Tools == {"calcular_valor_total_gasto", "encontrar_item_mais_caro_ou_barato",
          "obter_top_n_itens_por", "obter_top_n_fornecedores_por_valor",
          "contar_notas_ou_itens"}

IsToolCall == last.tool \in Tools

EmptyDatasetError(ret) ==
    /\ ret.kind = "erro"
    /\ ret.erro \in {"DataFrame vazio.", "DataFrame vazio ou não carregado."}

RECURSIVE SumInts(_)
SumInts(q) == IF q = <<>> THEN 0 ELSE Head(q) + SumInts(Tail(q))

Min(a, b) == IF a < b THEN a ELSE b

\* the join key of an uploaded file, read before any processing
HasKey(arquivo) == \E i \in 1..Len(arquivo.cols) : StripUpper(arquivo.cols[i]) = "CHAVE DE ACESSO"
RawKeyIdx(arquivo) ==
    CHOOSE i \in 1..Len(arquivo.cols) : StripUpper(arquivo.cols[i]) = "CHAVE DE ACESSO"
KeyTxt(arquivo, r) == astype_str(arquivo.rows[r][RawKeyIdx(arquivo)])
KeysOf(arquivo) == {KeyTxt(arquivo, r) : r \in 1..Len(arquivo.rows)}
KeyCount(arquivo, k) == Cardinality({r \in 1..Len(arquivo.rows) : KeyTxt(arquivo, r) = k})
SharedKeys == KeysOf(ult_cabecalho) \cap KeysOf(ult_itens)
BothHaveKey == agente.set /\ HasKey(ult_cabecalho) /\ HasKey(ult_itens)
RowsWithKey(k) ==
    Cardinality({r \in 1..Len(data_repo_df.rows) :
                    Cell(data_repo_df, r, "CHAVE DE ACESSO").s = k})

(***************************************************************************)
(* C1: with no table loaded every tool returns the empty-dataset error,    *)
(* whatever its other arguments are (the empty check comes first).         *)
(***************************************************************************)
C1_EmptyGuardFirst ==
    (IsToolCall /\ empty(data_repo_df)) => EmptyDatasetError(last.ret)

(***************************************************************************)
(* C2: on a loaded table a call with an out-of-enum choice is answered     *)
(* with an error; the value is never treated as one of the valid choices   *)
(* and answered with a result.                                             *)
(***************************************************************************)
OutOfEnum ==
    \/ /\ last.tool = "encontrar_item_mais_caro_ou_barato"
       /\ last.args.ordenacao \notin {"caro", "barato"}
    \/ /\ last.tool \in {"obter_top_n_itens_por", "obter_top_n_fornecedores_por_valor"}
       /\ last.args.ordem \notin {"maior", "menor"}
    \/ /\ last.tool = "obter_top_n_itens_por"
       /\ last.args.metrica \notin {"quantidade", "valor"}
    \/ /\ last.tool = "contar_notas_ou_itens"
       /\ last.args.contar_o_que \notin {"notas", "itens"}

C2_OutOfEnumIsError ==
    (IsToolCall /\ ~empty(data_repo_df) /\ OutOfEnum) => last.ret.kind # "ok"

(***************************************************************************)
(* C3: whatever table was published and whatever the arguments, a tool     *)
(* call ends with a JSON result or a JSON error, never with an exception.  *)
(***************************************************************************)
C3_NoUncaughtFailure == IsToolCall => last.ret.kind # "raise"

(***************************************************************************)
(* C4: after an upload in which the header file or the item file lacks     *)
(* the join key, the shared table is empty, whatever was loaded before,    *)
(* and every tool call returns the empty-dataset error.                    *)
(***************************************************************************)
MissingKey == agente.set /\ (~HasKey(ult_cabecalho) \/ ~HasKey(ult_itens))

C4_MissingKeyEmptyError ==
    MissingKey => /\ data_repo_df = DataFrame
                  /\ IsToolCall => EmptyDatasetError(last.ret)

\* the part of C4 about the shared state alone
C4_MissingKeyPublishesEmpty == MissingKey => data_repo_df = DataFrame

(***************************************************************************)
(* C5: when both files have the join key, the consolidated table has as    *)
(* many rows as the item file has rows with a key shared by both files.    *)
(***************************************************************************)
C5_RowsAreSharedItemRows ==
    BothHaveKey =>
        LET ks == SortTxt(SharedKeys)
        IN Len(data_repo_df.rows) =
               SumInts([i \in 1..Len(ks) |-> KeyCount(ult_itens, ks[i])])

(***************************************************************************)
(* C5, amended: the consolidated table holds, for every key, as many rows  *)
(* as (header rows with the key) x (item rows with the key); a key of one  *)
(* file only contributes none.                                             *)
(***************************************************************************)
C5_JoinExactness ==
    BothHaveKey =>
        LET ks == SortTxt(SharedKeys)
        IN /\ Len(data_repo_df.rows) =
                 SumInts([i \in 1..Len(ks) |->
                            KeyCount(ult_cabecalho, ks[i]) * KeyCount(ult_itens, ks[i])])
           /\ \A k \in KeysOf(ult_cabecalho) \cup KeysOf(ult_itens) :
                 RowsWithKey(k) = KeyCount(ult_cabecalho, k) * KeyCount(ult_itens, k)
           /\ \A r \in 1..Len(data_repo_df.rows) :
                 Cell(data_repo_df, r, "CHAVE DE ACESSO").s \in SharedKeys

C5_Witness ==
    /\ BothHaveKey
    /\ \E k \in SharedKeys : KeyCount(ult_cabecalho, k) = 2 /\ RowsWithKey(k) = 2
    /\ KeysOf(ult_itens) \ KeysOf(ult_cabecalho) # {}

(***************************************************************************)
(* Grouping and ranking, stated on the shared table                        *)
(***************************************************************************)
Groups(chave) == {Cell(data_repo_df, r, chave).s : r \in 1..Len(data_repo_df.rows)}

GroupSum(chave, valor, k) ==
    SumInts([r \in 1..Len(data_repo_df.rows) |->
                IF Cell(data_repo_df, r, chave).s = k
                THEN Val(Cell(data_repo_df, r, valor)) ELSE 0])

\* serie lists groups of the shared table with their sums, best first, and no
\* group left out is better than a listed one
Ranked(serie, chave, valor, maior) ==
    /\ \A i \in 1..Len(serie) :
          /\ serie[i].chave \in Groups(chave)
          /\ serie[i].soma = GroupSum(chave, valor, serie[i].chave)
    /\ \A i, j \in 1..Len(serie) : i < j =>
          /\ serie[i].chave # serie[j].chave
          /\ IF maior THEN serie[i].soma >= serie[j].soma
                      ELSE serie[i].soma <= serie[j].soma
    /\ \A k \in Groups(chave) \ {serie[i].chave : i \in 1..Len(serie)} :
          \A i \in 1..Len(serie) :
              IF maior THEN GroupSum(chave, valor, k) <= serie[i].soma
                       ELSE GroupSum(chave, valor, k) >= serie[i].soma

TopNItensCase ==
    /\ last.tool = "obter_top_n_itens_por"
    /\ ~empty(data_repo_df)
    /\ last.args.metrica \in {"quantidade", "valor"}
    /\ last.args.ordem \in {"maior", "menor"}
    /\ last.args.n.t = "int"

TopNItensAnswer ==
    /\ last.ret.kind = "ok"
    /\ Len(last.ret.serie) = Min(last.args.n.n, Cardinality(Groups("ITEM")))
    /\ Ranked(last.ret.serie, "ITEM",
              IF last.args.metrica = "quantidade" THEN "QUANTIDADE" ELSE "VALOR TOTAL",
              last.args.ordem = "maior")
    /\ ( /\ ult_itens = Exemplo.itens
         /\ ult_cabecalho = Exemplo.cab
         /\ last.args = [metrica |-> "valor", n |-> IntCell(3), ordem |-> "maior"] )
       => last.ret.serie = << [chave |-> <<"C">>, soma |-> 2000],
                              [chave |-> <<"A">>, soma |-> 1000],
                              [chave |-> <<"D">>, soma |-> 750] >>

(***************************************************************************)
(* C6: on a loaded table obter_top_n_itens_por, given a valid metrica and  *)
(* an integer n (here n >= 0), returns min(n, number of ITEM groups)       *)
(* groups with their sums, ranked by ordem, no omitted group being better  *)
(* than a returned one; the example A:100 B:50 C:200 D:75 gives C, A, D.   *)
(***************************************************************************)
C6_TopNItens == (TopNItensCase /\ last.args.n.n >= 0) => TopNItensAnswer

\* C6 on the tables that have the ITEM column and the column of the metric
C6_TopNItensWithColumns ==
    ( /\ TopNItensCase
      /\ last.args.n.n >= 0
      /\ HasCol(data_repo_df, "ITEM")
      /\ HasCol(data_repo_df, IF last.args.metrica = "quantidade"
                              THEN "QUANTIDADE" ELSE "VALOR TOTAL")
      /\ IsNumeric(Column(data_repo_df, IF last.args.metrica = "quantidade"
                                        THEN "QUANTIDADE" ELSE "VALOR TOTAL")) )
    => TopNItensAnswer

(***************************************************************************)
(* C7: with a supplier text, contar_notas_ou_itens counts over the rows    *)
(* whose FORNECEDOR contains the text as a case-insensitive substring:     *)
(* distinct keys for "notas", rows for "itens", and the error naming the   *)
(* supplier when no row matches.                                           *)
(***************************************************************************)
Substring(pat, s) ==
    \E p \in 0..(Len(s) - Len(pat)) :
        \A i \in 1..Len(pat) : Lower(pat[i]) = Lower(s[p + i])

SupplierRows(pat) ==
    {r \in 1..Len(data_repo_df.rows) :
        Substring(pat, Cell(data_repo_df, r, "FORNECEDOR").s)}

C7_CountBySubstring ==
    ( /\ last.tool = "contar_notas_ou_itens"
      /\ ~empty(data_repo_df)
      /\ HasCol(data_repo_df, "FORNECEDOR")
      /\ last.args.fornecedor.t = "str"
      /\ last.args.fornecedor.s # <<>>
      /\ ~RegexInvalid(last.args.fornecedor.s)
      /\ last.args.contar_o_que \in {"notas", "itens"} )
    => LET M == SupplierRows(last.args.fornecedor.s)
       IN IF M = {}
          THEN /\ last.ret.kind = "erro"
               /\ "fornecedor" \in DOMAIN last.ret
               /\ last.ret.fornecedor = last.args.fornecedor.s
          ELSE /\ last.ret.kind = "ok"
               /\ last.ret.contagem =
                    IF last.args.contar_o_que = "notas"
                    THEN Cardinality({Cell(data_repo_df, r, "CHAVE DE ACESSO") : r \in M})
                    ELSE Cardinality(M)

(***************************************************************************)
(* C8: the tools only read the shared table: it is always the table the    *)
(* last consolidation published, and every tool call returns what the      *)
(* tool computes from that table and its arguments, so a repeated call     *)
(* returns the same result.                                                *)
(***************************************************************************)
C8_ToolsAreReadOnly ==
    /\ data_repo_df = publicado
    /\ IsToolCall => last.ret = ToolResult(publicado, last.tool, last.args)

C8_Witness ==
    /\ last.tool = "contar_notas_ou_itens"
    /\ last.args.contar_o_que = "itens"
    /\ last.args.fornecedor.t = "str"
    /\ last.ret.kind = "ok"
    /\ last.ret.contagem < Len(data_repo_df.rows)

(***************************************************************************)
(* C9: after a consolidation that joins to zero rows every tool returns    *)
(* the empty-dataset error and consultar_ia returns the 'data not loaded'  *)
(* message without calling the language model, as when nothing is loaded.  *)
(***************************************************************************)
ZeroRowJoin == BothHaveKey /\ SharedKeys = {}

NotLoadedAnswer(ret) ==
    /\ ret.texto = "Os dados ainda não foram carregados ou processados."
    /\ ~ret.chamou_modelo

C9_ZeroRowJoinLooksUnloaded ==
    ZeroRowJoin => /\ IsToolCall => EmptyDatasetError(last.ret)
                   /\ last.tool = "consultar_ia" => NotLoadedAnswer(last.ret)

\* the part of C9 that compares the two states call by call
C9_SameAsNoTable ==
    ZeroRowJoin => /\ IsToolCall => last.ret = ToolResult(DataFrame, last.tool, last.args)
                   /\ last.tool = "consultar_ia" => NotLoadedAnswer(last.ret)

(***************************************************************************)
(* C10: the value obter_top_n_fornecedores_por_valor reports for a         *)
(* supplier is the sum of VALOR NOTA FISCAL over the consolidated rows of  *)
(* that supplier: an invoice joined with k item rows counts k times its    *)
(* value, an invoice without item rows counts nothing; the suppliers are   *)
(* ranked on these sums.                                                   *)
(***************************************************************************)
HdrCol(c) == IF StripUpper(c) = "RAZÃO SOCIAL EMITENTE" THEN "FORNECEDOR" ELSE StripUpper(c)
HdrHas(name) == \E i \in 1..Len(ult_cabecalho.cols) : HdrCol(ult_cabecalho.cols[i]) = name
HdrCell(r, name) ==
    ult_cabecalho.rows[r][CHOOSE i \in 1..Len(ult_cabecalho.cols) :
                              HdrCol(ult_cabecalho.cols[i]) = name]
InvoiceSupplier(r) ==
    IF HdrCell(r, "FORNECEDOR").t = "nan" THEN NaoEspecificado
    ELSE HdrCell(r, "FORNECEDOR").s
InvoiceValue(r) == Val(FillCell(CoerceCell(HdrCell(r, "VALOR NOTA FISCAL")), IntCell(0)))
ItemRowsOf(r) == KeyCount(ult_itens, KeyTxt(ult_cabecalho, r))
InvoiceSum(f) ==
    SumInts([r \in 1..Len(ult_cabecalho.rows) |->
                IF InvoiceSupplier(r) = f THEN InvoiceValue(r) * ItemRowsOf(r) ELSE 0])

====
